---- MODULE Spec2Model ----
\* A model of src/graph/base.py: Graph, Vertex and Edge objects, the two
\* construction gates, the relationship methods with their duplicate check,
\* Edge chaining and the in-place weight update.
EXTENDS Integers, Sequences, FiniteSets, TLC

\* ------------------------------------------------------------------ bounds
\* At most MaxVertices Vertex objects and MaxEdges Edge objects are ever built;
\* the clients that draw their arguments from several weights or argument
\* kinds stop at FewEdges Edge objects.
MaxVertices == 2
MaxEdges == 4
FewEdges == 2

\* ------------------------------------------------------------------ values
\* A null reference (Python None where an object reference is expected).
None == 0

\* The Graph objects of the run, all built by Graph() before the first call.
Graphs == {1, 2}

\* The ids uuid4() may hand out. A UUID hashes to hash(int(uuid)), an integer;
\* the ids stand for those integers, so hash(id) = id. They are of one digit
\* each, so the texts of two ids written one after the other name the two ids
\* (hashes of random UUIDs, some nineteen digits long, run together into the
\* text of another pair no more often than two of them are the same number).
UUIDs == 1 .. MaxVertices

\* Client payloads (type Any). A payload is its Python type and its value.
PyNone == [type |-> "NoneType"]
PyStrNone == [type |-> "str", val |-> <<"N", "o", "n", "e">>]
PyInt1 == [type |-> "int", val |-> 1]
PyStrP == [type |-> "str", val |-> <<"p">>]
PyStr1 == [type |-> "str", val |-> <<"1">>]

Values == {PyInt1, PyStrP}
Weights == {PyNone, PyInt1}

\* Weights of different types, some with the same text form.
TextWeights == {PyNone, PyStrNone, PyInt1, PyStr1}

Directions == {"LEFT", "RIGHT", "NONE"}

VARIABLES
    vertexObjs,          \* every Vertex object built so far, by id
    edgeObjs,            \* every Edge object built so far, in order of construction
    vertices,            \* Graph.vertices of each graph: a set of Vertex ids
    edges,               \* Graph.edges of each graph: a hash set of Edge objects
    Graph_gate_keeper,   \* Graph._gate_keeper, the gate of Vertex construction
    Vertex_gate_keeper,  \* Vertex._gate_keeper, the gate of Edge construction
    last,                \* the outcome of the most recent call
    threads              \* of each thread: where it is in the call it is making

vars ==
    <<vertexObjs, edgeObjs, vertices, edges, Graph_gate_keeper, Vertex_gate_keeper, last,
      threads>>

\* ------------------------------------------------------------------ text
DigitChars == <<"0", "1", "2", "3", "4", "5", "6", "7", "8", "9">>

\* str(n) of a non-negative integer: its decimal digits.
RECURSIVE IntStr(_)
IntStr(n) ==
    IF n < 10 THEN <<DigitChars[n + 1]>>
    ELSE IntStr(n \div 10) \o <<DigitChars[(n % 10) + 1]>>

\* str(x) of a payload, as an f-string formats it.
PyStr(x) ==
    CASE x.type = "NoneType" -> <<"N", "o", "n", "e">>
      [] x.type = "str" -> x.val
      [] x.type = "int" -> IntStr(x.val)

\* str(d) of a Direction member: "Direction.LEFT", "Direction.RIGHT", "Direction.NONE".
DirectionStr(d) ==
    <<"D", "i", "r", "e", "c", "t", "i", "o", "n", ".">> \o
    (CASE d = "LEFT" -> <<"L", "E", "F", "T">>
       [] d = "RIGHT" -> <<"R", "I", "G", "H", "T">>
       [] d = "NONE" -> <<"N", "O", "N", "E">>)

\* ------------------------------------------------------------------ hashing
\* hash(v) of an Edge endpoint. Of a Vertex it is Hashable.__hash__:
\* hash(self.id); of None it is the integer Python gives hash(None).
HashableHash(v) == IF v = None THEN 0 ELSE vertexObjs[v].id

\* A key text that puts the smaller endpoint hash first, whichever endpoint it
\* belongs to.
GetUniqueId_Unordered(e) ==
    LET h1 == HashableHash(e.vertex1)
        h2 == HashableHash(e.vertex2)
    IN  IntStr(IF h1 <= h2 THEN h1 ELSE h2) \o IntStr(IF h1 <= h2 THEN h2 ELSE h1)
            \o DirectionStr(e.direction) \o PyStr(e.weight)

\* Edge._get_unique_id: the four texts joined with no separator.
GetUniqueId(e) ==
    IntStr(HashableHash(e.vertex1)) \o IntStr(HashableHash(e.vertex2))
        \o DirectionStr(e.direction) \o PyStr(e.weight)

\* Edge.__hash__: the hash of that text. Two texts hash alike exactly when they
\* are the same text (collisions of the string hash itself are left out).
EdgeHash(e) == GetUniqueId(e)

\* ------------------------------------------------------------------ state
CreatedVertices == DOMAIN vertexObjs
CreatedEdges == DOMAIN edgeObjs

\* The Edge objects a graph's edge set holds.
Stored(g) == {x.obj : x \in edges[g]}

Outcome(op, status, ret, warn) ==
    [op |-> op, status |-> status, ret |-> ret, warn |-> warn]

\* The threads of a client that calls from several threads.
Threads == {1, 2}

\* A thread between calls; out is how its last call ended.
Idle(out) ==
    [pc |-> "idle", op |-> "none", self |-> None, arg |-> None, obj |-> None,
     dup |-> FALSE, out |-> out]

Init ==
    /\ threads = [t \in Threads |-> Idle([op |-> "none", status |-> "none"])]
    /\ vertexObjs = <<>>
    /\ edgeObjs = <<>>
    /\ vertices = [g \in Graphs |-> {}]
    /\ edges = [g \in Graphs |-> {}]
    /\ Graph_gate_keeper = None
    /\ Vertex_gate_keeper = None
    /\ last = Outcome("Graph", "ok", None, FALSE)

\* MemberClass.__init__ of a gated class: refused while the gate is None.
GateRefuses(gate) == gate = None

\* The Vertex objects with one more, filed under its id.
WithVertex(vertex) ==
    [i \in CreatedVertices \cup {vertex.id} |-> IF i = vertex.id THEN vertex ELSE vertexObjs[i]]

\* create_vertex that keeps a Vertex out of the set when the graph already has
\* one with the same value (vertices compared by value, not by id).
create_vertex_ByValue(self, data, uuid) ==
    LET vertex == [id |-> uuid, value |-> data, graph |-> self]
    IN  /\ uuid \notin CreatedVertices
        /\ ~GateRefuses(self)
        /\ vertexObjs' = WithVertex(vertex)
        /\ Graph_gate_keeper' = None
        /\ vertices' = IF \E v \in vertices[self] : vertexObjs[v].value = data
                       THEN vertices
                       ELSE [vertices EXCEPT ![self] = @ \cup {vertex.id}]
        /\ last' = Outcome("create_vertex", "ok", vertex.id, FALSE)
        /\ UNCHANGED <<threads, edgeObjs, edges, Vertex_gate_keeper>>

\* Graph.create_vertex(data): open the gate, build the Vertex, close the gate,
\* add the Vertex to self.vertices, return it. uuid is what uuid4() hands out
\* for the new Vertex: an id no object has yet.
create_vertex(self, data, uuid) ==
    LET vertex == [id |-> uuid, value |-> data, graph |-> self]
    IN  /\ uuid \notin CreatedVertices
        /\ ~GateRefuses(self)
        /\ vertexObjs' = WithVertex(vertex)
        /\ Graph_gate_keeper' = None
        /\ vertices' = [vertices EXCEPT ![self] = @ \cup {vertex.id}]
        /\ last' = Outcome("create_vertex", "ok", vertex.id, FALSE)
        /\ UNCHANGED <<threads, edgeObjs, edges, Vertex_gate_keeper>>

\* ------------------------------------------------------------------ Edge construction
\* Field validation of vertex1: Vertex and vertex2: Vertex when the argument is
\* passed explicitly: it must be a Vertex object; a None is rejected.
IsVertex(v) == v \in CreatedVertices

\* The constructor with both endpoint fields optional: a None passes validation.
EdgeInit_NoneAccepted(gate, weight, vertex1, vertex2) ==
    IF GateRefuses(gate) THEN [raised |-> "GraphError", edge |-> None]
    ELSE [raised |-> "no",
          edge |-> [id |-> Len(edgeObjs) + 1, vertex1 |-> vertex1, vertex2 |-> vertex2,
                    direction |-> "NONE", weight |-> weight]]

\* Edge(weight=, vertex1=, vertex2=, _graph=) with the gate as it stands:
\* MemberClass.__init__ checks the gate, then the fields are validated and the
\* Edge gets a fresh id and the default direction.
EdgeInit(gate, weight, vertex1, vertex2) ==
    IF GateRefuses(gate) THEN [raised |-> "GraphError", edge |-> None]
    ELSE IF ~IsVertex(vertex1) \/ ~IsVertex(vertex2)
        THEN [raised |-> "ValidationError", edge |-> None]
    ELSE [raised |-> "no",
          edge |-> [id |-> Len(edgeObjs) + 1, vertex1 |-> vertex1, vertex2 |-> vertex2,
                    direction |-> "NONE", weight |-> weight]]

\* _create_edge without its last assignment to the gate: the gate stays open.
CreateEdge_GateLeftOpen(self, vertex, weight) ==
    LET built == EdgeInit(self, weight, self, vertex)
    IN  [raised |-> built.raised, edge |-> built.edge, gate |-> self]

\* Vertex._create_edge: open the gate, build the Edge, close the gate. An
\* exception of the constructor leaves before the gate is closed.
CreateEdge(self, vertex, weight) ==
    LET built == EdgeInit(self, weight, self, vertex)
    IN  IF built.raised = "no"
        THEN [raised |-> "no", edge |-> built.edge, gate |-> None]
        ELSE [raised |-> built.raised, edge |-> None, gate |-> self]

\* The bodies of Vertex.edge, Vertex.ledge and Vertex.redge, before the decorator.
EdgeBody(self, vertex, weight) == CreateEdge(self, vertex, weight)

\* ledge that returns the Edge as built, its direction not yet assigned.
LedgeBody_DirectionNotSet(self, vertex, weight) == CreateEdge(self, vertex, weight)

LedgeBody(self, vertex, weight) ==
    LET r == CreateEdge(self, vertex, weight)
    IN  IF r.raised = "no" THEN [r EXCEPT !.edge.direction = "LEFT"] ELSE r

RedgeBody(self, vertex, weight) ==
    LET r == CreateEdge(self, vertex, weight)
    IN  IF r.raised = "no" THEN [r EXCEPT !.edge.direction = "RIGHT"] ELSE r

Ops == {"edge", "ledge", "redge"}

Body(op, self, vertex, weight) ==
    CASE op = "edge" -> EdgeBody(self, vertex, weight)
      [] op = "ledge" -> LedgeBody(self, vertex, weight)
      [] op = "redge" -> RedgeBody(self, vertex, weight)

\* ------------------------------------------------------------------ the edge set
\* BaseModel.__eq__ of two Edge objects: equal fields, the id among them.
ModelEq(e1, e2) == e1 = e2

\* set.add(edge) on Graph.edges: the entry is filed under the hash the Edge has
\* now; an entry filed under that hash that is the Edge or equals it keeps it out.
SetAdd(s, edge) ==
    IF \E x \in s : x.hash = EdgeHash(edge)
                    /\ (x.obj = edge.id \/ ModelEq(edgeObjs[x.obj], edge))
    THEN s
    ELSE s \cup {[obj |-> edge.id, hash |-> EdgeHash(edge)]}

\* edge in s, for a hash set s: the entries filed under the hash the Edge has
\* now are searched for the Edge itself or one equal to it.
Contains(s, edge) ==
    \E x \in s : x.hash = EdgeHash(edge)
                  /\ (x.obj = edge.id \/ ModelEq(edgeObjs[x.obj], edge))

\* The test made against the hashes the entries were filed under (edge in
\* self.graph.edges would look there), not against the Edges as they are now.
AlreadyExists_FiledHash(edge, g) == EdgeHash(edge) \in {x.hash : x \in edges[g]}

\* The test of save_relationship: hash(edge) in [hash(e) for e in self.graph.edges],
\* each stored Edge hashed as it is now.
AlreadyExists(edge, g) == EdgeHash(edge) \in {EdgeHash(edgeObjs[x.obj]) : x \in edges[g]}

\* A wrapper that, on a duplicate, hands back the Edge already stored under the
\* key instead of the one the body built.
Relationship_ReturnsStored(name, op, self, vertex, weight) ==
    LET r == Body(op, self, vertex, weight)
        g == vertexObjs[self].graph
    IN  IF r.raised # "no"
        THEN /\ Vertex_gate_keeper' = r.gate
             /\ last' = Outcome(name, r.raised, None, FALSE)
             /\ UNCHANGED <<threads, vertexObjs, edgeObjs, vertices, edges, Graph_gate_keeper>>
        ELSE /\ Len(edgeObjs) < MaxEdges
             /\ Vertex_gate_keeper' = r.gate
             /\ edgeObjs' = Append(edgeObjs, r.edge)
             /\ edges' = IF AlreadyExists(r.edge, g) THEN edges
                         ELSE [edges EXCEPT ![g] = SetAdd(@, r.edge)]
             /\ last' = IF AlreadyExists(r.edge, g)
                        THEN Outcome(name, "ok",
                                     (CHOOSE x \in edges[g] :
                                         EdgeHash(edgeObjs[x.obj]) = EdgeHash(r.edge)).obj,
                                     TRUE)
                        ELSE Outcome(name, "ok", r.edge.id, FALSE)
             /\ UNCHANGED <<threads, vertexObjs, vertices, Graph_gate_keeper>>

\* A wrapper that moves the target Vertex of a cross-graph call into the
\* caller's graph before it stores the Edge.
Relationship_AdoptsVertex(name, op, self, vertex, weight) ==
    LET r == Body(op, self, vertex, weight)
        g == vertexObjs[self].graph
    IN  IF r.raised # "no"
        THEN /\ Vertex_gate_keeper' = r.gate
             /\ last' = Outcome(name, r.raised, None, FALSE)
             /\ UNCHANGED <<threads, vertexObjs, edgeObjs, vertices, edges, Graph_gate_keeper>>
        ELSE /\ Len(edgeObjs) < MaxEdges
             /\ Vertex_gate_keeper' = r.gate
             /\ edgeObjs' = Append(edgeObjs, r.edge)
             /\ edges' = IF AlreadyExists(r.edge, g) THEN edges
                         ELSE [edges EXCEPT ![g] = SetAdd(@, r.edge)]
             /\ last' = Outcome(name, "ok", r.edge.id, AlreadyExists(r.edge, g))
             /\ vertexObjs' = [vertexObjs EXCEPT ![vertex].graph = g]
             /\ vertices' = [h \in Graphs |->
                                IF h = g THEN vertices[h] \cup {vertex}
                                ELSE vertices[h] \ {vertex}]
             /\ UNCHANGED <<threads, Graph_gate_keeper>>

\* save_relationship's wrapper around one of the three bodies: run the body,
\* warn when the hash is already there, else add the Edge; return the Edge.
\* name is the method the client called.
Relationship(name, op, self, vertex, weight) ==
    LET r == Body(op, self, vertex, weight)
        g == vertexObjs[self].graph
    IN  IF r.raised # "no"
        THEN /\ Vertex_gate_keeper' = r.gate
             /\ last' = Outcome(name, r.raised, None, FALSE)
             /\ UNCHANGED <<threads, vertexObjs, edgeObjs, vertices, edges, Graph_gate_keeper>>
        ELSE /\ Len(edgeObjs) < MaxEdges
             /\ Vertex_gate_keeper' = r.gate
             /\ edgeObjs' = Append(edgeObjs, r.edge)
             /\ edges' = IF AlreadyExists(r.edge, g) THEN edges
                         ELSE [edges EXCEPT ![g] = SetAdd(@, r.edge)]
             /\ last' = Outcome(name, "ok", r.edge.id, AlreadyExists(r.edge, g))
             /\ UNCHANGED <<threads, vertexObjs, vertices, Graph_gate_keeper>>

\* ------------------------------------------------------------------ Vertex methods
Vertex_edge(self, vertex, weight) == Relationship("Vertex.edge", "edge", self, vertex, weight)

Vertex_ledge(self, vertex, weight) == Relationship("Vertex.ledge", "ledge", self, vertex, weight)

Vertex_redge(self, vertex, weight) == Relationship("Vertex.redge", "redge", self, vertex, weight)

\* ------------------------------------------------------------------ Edge methods
\* An argument of a chaining call: a Vertex, an Edge, or None.
VertexArg(v) == [kind |-> "Vertex", ref |-> v]
EdgeArg(e) == [kind |-> "Edge", ref |-> e]
NoneArg == [kind |-> "NoneType", ref |-> None]

\* A call that raises AttributeError before it touches anything.
RaisesAttributeError(name) ==
    /\ last' = Outcome(name, "AttributeError", None, FALSE)
    /\ UNCHANGED <<threads, vertexObjs, edgeObjs, vertices, edges, Graph_gate_keeper,
                   Vertex_gate_keeper>>

\* Edge.edge that takes the far end of the other Edge (other.vertex2) as target.
Edge_edge_FarEnd(self, other, weight) ==
    IF other.kind = "Vertex"
    THEN Relationship("Edge.edge", "edge", edgeObjs[self].vertex2, other.ref, weight)
    ELSE IF other.kind = "Edge"
        THEN Relationship("Edge.edge", "edge", edgeObjs[self].vertex2,
                          edgeObjs[other.ref].vertex2, weight)
    ELSE RaisesAttributeError("Edge.edge")

\* Edge.edge(other, weight).
Edge_edge(self, other, weight) ==
    IF other.kind = "Vertex"
    THEN Relationship("Edge.edge", "edge", edgeObjs[self].vertex2, other.ref, weight)
    ELSE IF other.kind = "Edge"
        THEN Relationship("Edge.edge", "edge", edgeObjs[self].vertex2,
                          edgeObjs[other.ref].vertex1, weight)
    ELSE RaisesAttributeError("Edge.edge")

\* Edge.ledge(other, weight).
Edge_ledge(self, other, weight) ==
    IF other.kind = "Vertex"
    THEN Relationship("Edge.ledge", "ledge", edgeObjs[self].vertex2, other.ref, weight)
    ELSE IF other.kind = "Edge"
        THEN Relationship("Edge.ledge", "ledge", edgeObjs[self].vertex2,
                          edgeObjs[other.ref].vertex1, weight)
    ELSE RaisesAttributeError("Edge.ledge")

\* Edge.redge(other, weight): the Vertex branch calls self.vertex2.rledge, a
\* method Vertex does not have.
Edge_redge(self, other, weight) ==
    IF other.kind = "Vertex"
    THEN RaisesAttributeError("Edge.redge")
    ELSE IF other.kind = "Edge"
        THEN Relationship("Edge.redge", "redge", edgeObjs[self].vertex2,
                          edgeObjs[other.ref].vertex1, weight)
    ELSE RaisesAttributeError("Edge.redge")

\* __call__ that returns a copy of the Edge with the new weight and leaves the
\* Edge it was called on as it was.
Edge_call_Copy(self, weight) ==
    /\ Len(edgeObjs) < MaxEdges
    /\ edgeObjs' = Append(edgeObjs, [edgeObjs[self] EXCEPT !.id = Len(edgeObjs) + 1,
                                                           !.weight = weight])
    /\ last' = Outcome("Edge.__call__", "ok", Len(edgeObjs) + 1, FALSE)
    /\ UNCHANGED <<threads, vertexObjs, vertices, edges, Graph_gate_keeper, Vertex_gate_keeper>>

\* Edge.__call__(weight): set the weight in place, return self.
Edge_call(self, weight) ==
    /\ edgeObjs' = [edgeObjs EXCEPT ![self].weight = weight]
    /\ last' = Outcome("Edge.__call__", "ok", self, FALSE)
    /\ UNCHANGED <<threads, vertexObjs, vertices, edges, Graph_gate_keeper, Vertex_gate_keeper>>

\* ------------------------------------------------------------------ direct construction
\* Vertex(value=, graph=) called by the client, outside create_vertex.
DirectVertex(graph, value, uuid) ==
    IF GateRefuses(Graph_gate_keeper)
    THEN /\ last' = Outcome("Vertex", "GraphError", None, FALSE)
         /\ UNCHANGED <<threads, vertexObjs, edgeObjs, vertices, edges, Graph_gate_keeper,
                        Vertex_gate_keeper>>
    ELSE /\ uuid \notin CreatedVertices
         /\ vertexObjs' = WithVertex([id |-> uuid, value |-> value, graph |-> graph])
         /\ last' = Outcome("Vertex", "ok", uuid, FALSE)
         /\ UNCHANGED <<threads, edgeObjs, vertices, edges, Graph_gate_keeper, Vertex_gate_keeper>>

\* Edge(weight=, vertex1=, vertex2=) called by the client, outside _create_edge.
DirectEdge(vertex1, vertex2, weight) ==
    LET built == EdgeInit(Vertex_gate_keeper, weight, vertex1, vertex2)
    IN  IF built.raised # "no"
        THEN /\ last' = Outcome("Edge", built.raised, None, FALSE)
             /\ UNCHANGED <<threads, vertexObjs, edgeObjs, vertices, edges, Graph_gate_keeper,
                            Vertex_gate_keeper>>
        ELSE /\ Len(edgeObjs) < MaxEdges
             /\ edgeObjs' = Append(edgeObjs, built.edge)
             /\ last' = Outcome("Edge", "ok", built.edge.id, FALSE)
             /\ UNCHANGED <<threads, vertexObjs, vertices, edges, Graph_gate_keeper,
                            Vertex_gate_keeper>>

\* ------------------------------------------------------------------ specification
\* The step leaves no more than FewEdges Edge objects: once there are that
\* many, it builds none.
Few == IF Len(edgeObjs) < FewEdges THEN TRUE ELSE UNCHANGED edgeObjs

\* The arguments of a chaining call: a Vertex, an Edge, or None.
ChainArgs ==
    {VertexArg(v) : v \in CreatedVertices} \cup {EdgeArg(e) : e \in CreatedEdges} \cup {NoneArg}

\* The payloads the clients of Spec pass.
SpecValues == {PyInt1}

\* The client passes Vertex objects where a Vertex is expected; it makes the
\* factory calls and tries to construct a Vertex or an Edge itself.
Next ==
    \/ \E g \in Graphs, v \in SpecValues, id \in UUIDs : create_vertex(g, v, id)
    \/ \E a \in CreatedVertices, b \in CreatedVertices, w \in Weights : Few /\ Vertex_edge(a, b, w)
    \/ \E a \in CreatedVertices, b \in CreatedVertices, w \in Weights : Few /\ Vertex_ledge(a, b, w)
    \/ \E a \in CreatedVertices, b \in CreatedVertices, w \in Weights : Few /\ Vertex_redge(a, b, w)
    \/ \E e \in CreatedEdges, o \in ChainArgs, w \in Weights : Few /\ Edge_edge(e, o, w)
    \/ \E e \in CreatedEdges, o \in ChainArgs, w \in Weights : Few /\ Edge_ledge(e, o, w)
    \/ \E e \in CreatedEdges, o \in ChainArgs, w \in Weights : Few /\ Edge_redge(e, o, w)
    \/ \E e \in CreatedEdges, w \in Weights : Edge_call(e, w)
    \/ \E g \in Graphs, v \in SpecValues, id \in UUIDs : DirectVertex(g, v, id)
    \/ \E a \in CreatedVertices, b \in CreatedVertices, w \in Weights : Few /\ DirectEdge(a, b, w)

Spec == Init /\ [][Next]_vars

\* A client that builds vertices with either payload and joins them.
NextCreate ==
    \/ \E g \in Graphs, v \in Values, id \in UUIDs : create_vertex(g, v, id)
    \/ \E a \in CreatedVertices, b \in CreatedVertices : Few /\ Vertex_edge(a, b, PyNone)
    \/ \E a \in CreatedVertices, b \in CreatedVertices : Few /\ Vertex_redge(a, b, PyNone)
    \/ \E g \in Graphs, v \in Values, id \in UUIDs : DirectVertex(g, v, id)

SpecCreate == Init /\ [][NextCreate]_vars

\* A client that also passes None where a Vertex is expected (to ledge and
\* redge it passes nothing else).
VertexOrNone == CreatedVertices \cup {None}

NextAbsent ==
    \/ \E g \in Graphs, id \in UUIDs : create_vertex(g, PyInt1, id)
    \/ \E a \in CreatedVertices, b \in VertexOrNone, w \in Weights : Few /\ Vertex_edge(a, b, w)
    \/ \E a \in CreatedVertices, w \in Weights : Few /\ Vertex_ledge(a, None, w)
    \/ \E a \in CreatedVertices, w \in Weights : Few /\ Vertex_redge(a, None, w)
    \/ \E e \in CreatedEdges, w \in Weights : Few /\ Edge_edge(e, NoneArg, w)
    \/ \E e \in CreatedEdges, w \in Weights : Edge_call(e, w)
    \/ \E a \in CreatedVertices, b \in VertexOrNone, w \in Weights : Few /\ DirectEdge(a, b, w)

SpecAbsent == Init /\ [][NextAbsent]_vars

\* A client that joins vertices with weights of several types.
NextText ==
    \/ \E g \in Graphs, id \in UUIDs : create_vertex(g, PyInt1, id)
    \/ \E a \in CreatedVertices, b \in CreatedVertices, w \in TextWeights :
            Few /\ Vertex_edge(a, b, w)
    \/ \E a \in CreatedVertices, b \in CreatedVertices, w \in TextWeights :
            Few /\ Vertex_ledge(a, b, w)
    \/ \E a \in CreatedVertices, b \in CreatedVertices, w \in TextWeights :
            Few /\ Vertex_redge(a, b, w)

SpecText == Init /\ [][NextText]_vars

\* A client that joins distinct vertices in both orders and all three
\* directions, always with the default weight.
NextDedup ==
    \/ \E g \in Graphs, id \in UUIDs : create_vertex(g, PyInt1, id)
    \/ \E a \in CreatedVertices, b \in CreatedVertices : a # b /\ Vertex_edge(a, b, PyNone)
    \/ \E a \in CreatedVertices, b \in CreatedVertices : a # b /\ Vertex_ledge(a, b, PyNone)
    \/ \E a \in CreatedVertices, b \in CreatedVertices : a # b /\ Vertex_redge(a, b, PyNone)

SpecDedup == Init /\ [][NextDedup]_vars

\* ------------------------------------------------------------------ threads
\* Calls made from several threads, one statement of a method at a time: the
\* interpreter may switch threads between any two statements. Each action is
\* one statement, named by the method and the source line.

\* The thread, now at pc with its frame changed as given.
At(t, pc, rec) == [threads EXCEPT ![t] = [rec EXCEPT !.pc = pc]]

\* The thread's call has ended, by return or by exception.
Ended(t, status) ==
    [threads EXCEPT ![t] = Idle([op |-> threads[t].op, status |-> status])]

\* Vertex and Edge objects threads are about to build: a call is begun only
\* when the bounds leave room for its object.
PendingVertices ==
    Cardinality({t \in Threads : threads[t].op = "create_vertex" /\ threads[t].pc = "50"})
PendingEdges ==
    Cardinality({t \in Threads : threads[t].op = "edge" /\ threads[t].pc = "75"})
RoomForVertex == Cardinality(CreatedVertices) + PendingVertices < MaxVertices
RoomForEdge == Len(edgeObjs) + PendingEdges < FewEdges

\* The Vertex objects a call has handed to the client: all but those a
\* create_vertex still at work has built and not yet returned.
Returned ==
    CreatedVertices \ {threads[t].obj : t \in {u \in Threads : threads[u].op = "create_vertex"}}

\* The thread has opened the gate of its factory and not yet closed it.
InGate(t, op) ==
    /\ threads[t].op = op
    /\ threads[t].pc \in (IF op = "create_vertex" THEN {"50", "51"} ELSE {"75", "76"})

\* create_vertex whose first statement waits while another thread is between
\* opening and closing the Graph gate (the gated section under a lock).
create_vertex_49_Locked(t, self) ==
    /\ threads[t].pc = "idle"
    /\ RoomForVertex
    /\ ~ \E u \in Threads : InGate(u, "create_vertex")
    /\ Graph_gate_keeper' = self
    /\ threads' = At(t, "50", [threads[t] EXCEPT !.op = "create_vertex", !.self = self])
    /\ UNCHANGED <<vertexObjs, edgeObjs, vertices, edges, Vertex_gate_keeper, last>>

\* Line 49 of create_vertex: Graph._gate_keeper = self.
create_vertex_49(t, self) ==
    /\ threads[t].pc = "idle"
    /\ RoomForVertex
    /\ Graph_gate_keeper' = self
    /\ threads' = At(t, "50", [threads[t] EXCEPT !.op = "create_vertex", !.self = self])
    /\ UNCHANGED <<vertexObjs, edgeObjs, vertices, edges, Vertex_gate_keeper, last>>

\* Line 50: vertex = Vertex(value=data, graph=self). The constructor reads the
\* gate as it is now; a GraphError leaves the method.
create_vertex_50(t, uuid) ==
    /\ threads[t].op = "create_vertex"
    /\ threads[t].pc = "50"
    /\ IF GateRefuses(Graph_gate_keeper)
       THEN /\ threads' = Ended(t, "GraphError")
            /\ UNCHANGED vertexObjs
       ELSE /\ uuid \notin CreatedVertices
            /\ vertexObjs' = WithVertex([id |-> uuid, value |-> PyInt1,
                                         graph |-> threads[t].self])
            /\ threads' = At(t, "51", [threads[t] EXCEPT !.obj = uuid])
    /\ UNCHANGED <<edgeObjs, vertices, edges, Graph_gate_keeper, Vertex_gate_keeper, last>>

\* Line 51: Graph._gate_keeper = None.
create_vertex_51(t) ==
    /\ threads[t].op = "create_vertex"
    /\ threads[t].pc = "51"
    /\ Graph_gate_keeper' = None
    /\ threads' = At(t, "52", threads[t])
    /\ UNCHANGED <<vertexObjs, edgeObjs, vertices, edges, Vertex_gate_keeper, last>>

\* Lines 52-53: self.vertices.add(vertex); return vertex.
create_vertex_52(t) ==
    /\ threads[t].op = "create_vertex"
    /\ threads[t].pc = "52"
    /\ vertices' = [vertices EXCEPT ![threads[t].self] = @ \cup {threads[t].obj}]
    /\ threads' = Ended(t, "ok")
    /\ UNCHANGED <<vertexObjs, edgeObjs, edges, Graph_gate_keeper, Vertex_gate_keeper, last>>

\* Vertex(value=, graph=) called by a thread, outside create_vertex.
ThreadVertex(t, graph, uuid) ==
    /\ threads[t].pc = "idle"
    /\ IF GateRefuses(Graph_gate_keeper)
       THEN /\ threads' = [threads EXCEPT ![t] = Idle([op |-> "Vertex", status |-> "GraphError"])]
            /\ UNCHANGED vertexObjs
       ELSE /\ RoomForVertex
            /\ uuid \notin CreatedVertices
            /\ vertexObjs' = WithVertex([id |-> uuid, value |-> PyInt1, graph |-> graph])
            /\ threads' = [threads EXCEPT ![t] = Idle([op |-> "Vertex", status |-> "ok"])]
    /\ UNCHANGED <<edgeObjs, vertices, edges, Graph_gate_keeper, Vertex_gate_keeper, last>>

\* self.edge(vertex) begun: line 74 of _create_edge, Vertex._gate_keeper = self.
CreateEdge_74(t, self, vertex) ==
    /\ threads[t].pc = "idle"
    /\ RoomForEdge
    /\ Vertex_gate_keeper' = self
    /\ threads' = At(t, "75", [threads[t] EXCEPT !.op = "edge", !.self = self,
                                                 !.arg = vertex])
    /\ UNCHANGED <<vertexObjs, edgeObjs, vertices, edges, Graph_gate_keeper, last>>

\* Line 75: edge = Edge(weight=, vertex1=self, vertex2=vertex, _graph=). The
\* constructor reads the gate as it is now.
CreateEdge_75(t) ==
    LET built == EdgeInit(Vertex_gate_keeper, PyNone, threads[t].self, threads[t].arg)
    IN  /\ threads[t].op = "edge"
        /\ threads[t].pc = "75"
        /\ IF built.raised # "no"
           THEN /\ threads' = Ended(t, built.raised)
                /\ UNCHANGED edgeObjs
           ELSE /\ edgeObjs' = Append(edgeObjs, built.edge)
                /\ threads' = At(t, "76", [threads[t] EXCEPT !.obj = built.edge.id])
        /\ UNCHANGED <<vertexObjs, vertices, edges, Graph_gate_keeper, Vertex_gate_keeper,
                       last>>

\* Lines 76-77: Vertex._gate_keeper = None; return edge (to the wrapper).
CreateEdge_76(t) ==
    /\ threads[t].op = "edge"
    /\ threads[t].pc = "76"
    /\ Vertex_gate_keeper' = None
    /\ threads' = At(t, "65", threads[t])
    /\ UNCHANGED <<vertexObjs, edgeObjs, vertices, edges, Graph_gate_keeper, last>>

\* Lines 63-65 of the wrapper: the Edge is back from the body; the test
\* hash(edge) in [hash(e) for e in self.graph.edges].
save_relationship_65(t) ==
    /\ threads[t].op = "edge"
    /\ threads[t].pc = "65"
    /\ threads' = At(t, "68", [threads[t] EXCEPT !.dup =
                        AlreadyExists(edgeObjs[threads[t].obj],
                                      vertexObjs[threads[t].self].graph)])
    /\ UNCHANGED <<vertexObjs, edgeObjs, vertices, edges, Graph_gate_keeper,
                   Vertex_gate_keeper, last>>

\* Lines 66-69: warn, or self.graph.edges.add(edge); return edge.
save_relationship_68(t) ==
    /\ threads[t].op = "edge"
    /\ threads[t].pc = "68"
    /\ edges' = IF threads[t].dup THEN edges
                ELSE [edges EXCEPT ![vertexObjs[threads[t].self].graph] =
                            SetAdd(@, edgeObjs[threads[t].obj])]
    /\ threads' = Ended(t, "ok")
    /\ UNCHANGED <<vertexObjs, edgeObjs, vertices, Graph_gate_keeper, Vertex_gate_keeper,
                   last>>

\* Edge(weight=, vertex1=, vertex2=) called by a thread, outside _create_edge.
ThreadEdge(t, vertex1, vertex2) ==
    LET built == EdgeInit(Vertex_gate_keeper, PyNone, vertex1, vertex2)
    IN  /\ threads[t].pc = "idle"
        /\ IF built.raised # "no"
           THEN /\ threads' = [threads EXCEPT ![t] =
                                    Idle([op |-> "Edge", status |-> built.raised])]
                /\ UNCHANGED edgeObjs
           ELSE /\ RoomForEdge
                /\ edgeObjs' = Append(edgeObjs, built.edge)
                /\ threads' = [threads EXCEPT ![t] = Idle([op |-> "Edge", status |-> "ok"])]
        /\ UNCHANGED <<vertexObjs, vertices, edges, Graph_gate_keeper, Vertex_gate_keeper,
                       last>>

\* Two threads that make vertices and edges through the factories and try the
\* constructors themselves, their statements interleaved in any order.
NextThreads ==
    \/ \E t \in Threads, g \in Graphs : create_vertex_49(t, g)
    \/ \E t \in Threads, id \in UUIDs : create_vertex_50(t, id)
    \/ \E t \in Threads : create_vertex_51(t)
    \/ \E t \in Threads : create_vertex_52(t)
    \/ \E t \in Threads, g \in Graphs, id \in UUIDs : ThreadVertex(t, g, id)
    \/ \E t \in Threads, a \in Returned, b \in Returned : CreateEdge_74(t, a, b)
    \/ \E t \in Threads : CreateEdge_75(t)
    \/ \E t \in Threads : CreateEdge_76(t)
    \/ \E t \in Threads : save_relationship_65(t)
    \/ \E t \in Threads : save_relationship_68(t)
    \/ \E t \in Threads, a \in Returned, b \in Returned : ThreadEdge(t, a, b)

SpecThreads == Init /\ [][NextThreads]_vars

\* ------------------------------------------------------------------ the calls of a step
\* The direction each relationship method gives its Edge.
DirectionOf(op) ==
    CASE op = "edge" -> "NONE"
      [] op = "ledge" -> "LEFT"
      [] op = "redge" -> "RIGHT"

\* a.op(b, w) on a Vertex a.
VertexCall(op, a, b, w) ==
    CASE op = "edge" -> Vertex_edge(a, b, w)
      [] op = "ledge" -> Vertex_ledge(a, b, w)
      [] op = "redge" -> Vertex_redge(a, b, w)

\* e.op(o, w) on an Edge e.
EdgeCall(op, e, o, w) ==
    CASE op = "edge" -> Edge_edge(e, o, w)
      [] op = "ledge" -> Edge_ledge(e, o, w)
      [] op = "redge" -> Edge_redge(e, o, w)

\* The name last.op records for each method.
MethodName(op) ==
    CASE op = "edge" -> "Vertex.edge"
      [] op = "ledge" -> "Vertex.ledge"
      [] op = "redge" -> "Vertex.redge"

ChainName(op) ==
    CASE op = "edge" -> "Edge.edge"
      [] op = "ledge" -> "Edge.ledge"
      [] op = "redge" -> "Edge.redge"

\* The structural key of an Edge: (vertex1, vertex2, direction, weight).
StructuralKey(e) == <<e.vertex1, e.vertex2, e.direction, e.weight>>

GraphOf(v) == vertexObjs[v].graph

\* ------------------------------------------------------------------ C1
\* C1: after any sequence of completed factory calls both gates are closed, and
\* a Vertex or an Edge constructed directly by the client is refused with
\* GraphError and no object is built.
C1_DirectConstructionRefused ==
    /\ [](Graph_gate_keeper = None /\ Vertex_gate_keeper = None)
    /\ [][last'.op \in {"Vertex", "Edge"} =>
            /\ last'.status = "GraphError"
            /\ last'.ret = None
            /\ vertexObjs' = vertexObjs
            /\ edgeObjs' = edgeObjs
            /\ vertices' = vertices
            /\ edges' = edges]_vars

\* A direct Edge construction was refused after vertices and edges had been
\* made through the factories.
C1_Witness ==
    /\ last.op = "Edge"
    /\ last.status = "GraphError"
    /\ Len(edgeObjs) > 0
    /\ \E g \in Graphs : edges[g] # {}

\* ------------------------------------------------------------------ C2
\* C2: no graph's edge set holds two distinct Edges with the same structural
\* key (vertex1, vertex2, direction, weight).
C2_NoTwoEdgesWithOneKey ==
    \A g \in Graphs : \A x, y \in edges[g] :
        x.obj # y.obj => StructuralKey(edgeObjs[x.obj]) # StructuralKey(edgeObjs[y.obj])

\* ------------------------------------------------------------------ C3
\* C3: for a and b of one graph g, a.op(b, w) with an Edge of the same
\* (vertex1, vertex2, direction, weight) already in g.edges warns and leaves
\* every edge set as it was.
C3_DuplicateLeavesEdgeSet ==
    [][\A op \in Ops, a \in CreatedVertices, b \in CreatedVertices, w \in Weights :
        (/\ last'.op = MethodName(op)
         /\ GraphOf(a) = GraphOf(b)
         /\ \E x \in edges[GraphOf(a)] :
                StructuralKey(edgeObjs[x.obj]) = <<a, b, DirectionOf(op), w>>
         /\ VertexCall(op, a, b, w))
        => (/\ last'.status = "ok"
            /\ last'.warn
            /\ edges' = edges)]_vars

\* A relationship call has just warned: its Edge has the key of a stored Edge
\* and is not in the edge set itself.
C3_Witness ==
    /\ last.op \in {"Vertex.edge", "Vertex.ledge", "Vertex.redge"}
    /\ last.status = "ok"
    /\ last.warn
    /\ \E g \in Graphs :
        /\ last.ret \notin Stored(g)
        /\ \E x \in edges[g] :
            /\ StructuralKey(edgeObjs[x.obj]) = StructuralKey(edgeObjs[last.ret])
            /\ GraphOf(edgeObjs[last.ret].vertex1) = g
            /\ GraphOf(edgeObjs[last.ret].vertex2) = g

\* ------------------------------------------------------------------ C4
\* C4: both endpoints of every Edge stored in a graph's edge set are owned by
\* that graph (a cross-graph call stores an Edge to a clone owned by the
\* caller's graph).
C4_EndpointsOwnedByTheGraph ==
    \A g \in Graphs : \A x \in edges[g] :
        /\ GraphOf(edgeObjs[x.obj].vertex1) = g
        /\ GraphOf(edgeObjs[x.obj].vertex2) = g

\* ------------------------------------------------------------------ C5
\* C5: g.create_vertex(v) always succeeds; it returns a Vertex with graph g,
\* value v and an id no Vertex had; the Vertex is then in g.vertices, which has
\* grown by exactly one, also when g already has a Vertex with value v; the
\* vertex sets of the other graphs and all edge sets are as before.
C5_CreateVertex ==
    /\ [](\A g \in Graphs, v \in Values, id \in UUIDs \ CreatedVertices :
            ENABLED create_vertex(g, v, id))
    /\ [][\A g \in Graphs, v \in Values, id \in UUIDs :
            create_vertex(g, v, id) =>
                /\ last'.status = "ok"
                /\ last'.ret \notin CreatedVertices
                /\ \A u \in CreatedVertices : vertexObjs[u].id # vertexObjs'[last'.ret].id
                /\ vertexObjs'[last'.ret].graph = g
                /\ vertexObjs'[last'.ret].value = v
                /\ \A u \in CreatedVertices : vertexObjs'[u] = vertexObjs[u]
                /\ last'.ret \in vertices'[g]
                /\ Cardinality(vertices'[g]) = Cardinality(vertices[g]) + 1
                /\ \A h \in Graphs \ {g} : vertices'[h] = vertices[h]
                /\ edges' = edges
                /\ edgeObjs' = edgeObjs]_vars

\* create_vertex has just returned a second Vertex of the same graph with the
\* same value as the first, and the graph has an Edge.
C5_Witness ==
    /\ last.op = "create_vertex"
    /\ last.status = "ok"
    /\ \E u \in CreatedVertices \ {last.ret} :
        /\ vertexObjs[u].graph = vertexObjs[last.ret].graph
        /\ vertexObjs[u].value = vertexObjs[last.ret].value
        /\ {u, last.ret} \subseteq vertices[vertexObjs[u].graph]
        /\ edges[vertexObjs[u].graph] # {}

\* ------------------------------------------------------------------ C6
\* C6: for a and b of one graph, a.edge(b, w), a.ledge(b, w) and a.redge(b, w)
\* return an Edge with direction NONE, LEFT and RIGHT, with vertex1 = a,
\* vertex2 = b and weight = w; the duplicate check is made on the Edge with
\* that direction: the call warns exactly when a stored Edge hashes as the
\* returned Edge does, and an Edge that is added is filed under that hash.
C6_DirectionOfEachMethod ==
    [][\A op \in Ops, a \in CreatedVertices, b \in CreatedVertices, w \in Weights :
        (last'.op = MethodName(op) /\ GraphOf(a) = GraphOf(b) /\ VertexCall(op, a, b, w)) =>
            /\ last'.status = "ok"
            /\ last'.ret \in CreatedEdges' \ CreatedEdges
            /\ edgeObjs'[last'.ret].vertex1 = a
            /\ edgeObjs'[last'.ret].vertex2 = b
            /\ edgeObjs'[last'.ret].weight = w
            /\ edgeObjs'[last'.ret].direction = DirectionOf(op)
            /\ last'.warn = (\E x \in edges[GraphOf(a)] :
                                EdgeHash(edgeObjs[x.obj]) = EdgeHash(edgeObjs'[last'.ret]))
            /\ ~last'.warn =>
                    edges'[GraphOf(a)] = edges[GraphOf(a)] \cup
                        {[obj |-> last'.ret, hash |-> EdgeHash(edgeObjs'[last'.ret])]}]_vars

\* a.ledge(b, w) has just returned a LEFT Edge between two vertices of one graph
\* whose edge set already held the undirected Edge between them.
C6_Witness ==
    /\ last.op = "Vertex.ledge"
    /\ last.status = "ok"
    /\ ~last.warn
    /\ edgeObjs[last.ret].direction = "LEFT"
    /\ edgeObjs[last.ret].vertex1 # edgeObjs[last.ret].vertex2
    /\ LET g == GraphOf(edgeObjs[last.ret].vertex1)
       IN  /\ GraphOf(edgeObjs[last.ret].vertex2) = g
           /\ last.ret \in Stored(g)
           /\ \E x \in edges[g] :
                /\ edgeObjs[x.obj].direction = "NONE"
                /\ edgeObjs[x.obj].vertex1 = edgeObjs[last.ret].vertex1
                /\ edgeObjs[x.obj].vertex2 = edgeObjs[last.ret].vertex2
                /\ edgeObjs[x.obj].weight = edgeObjs[last.ret].weight

\* ------------------------------------------------------------------ C7
\* C7: for an Edge e and a Vertex c, e.op(c, w) completes for every op and
\* yields an Edge with vertex1 = e.vertex2, vertex2 = c, the direction of op and
\* weight w, with the effect of e.vertex2.op(c, w) on the edge sets.
C7_ChainToVertex ==
    [][\A op \in Ops, e \in CreatedEdges, c \in CreatedVertices, w \in Weights :
        (last'.op = ChainName(op) /\ EdgeCall(op, e, VertexArg(c), w)) =>
            /\ last'.status = "ok"
            /\ last'.ret \in CreatedEdges' \ CreatedEdges
            /\ edgeObjs'[last'.ret].vertex1 = edgeObjs[e].vertex2
            /\ edgeObjs'[last'.ret].vertex2 = c
            /\ edgeObjs'[last'.ret].direction = DirectionOf(op)
            /\ edgeObjs'[last'.ret].weight = w
            /\ Relationship(last'.op, op, edgeObjs[e].vertex2, c, w)]_vars

C9_UpdateSetsOnlyTheWeight ==
    [][\A e \in CreatedEdges, w \in Weights :
        Edge_call(e, w) =>
            /\ last'.status = "ok"
            /\ last'.ret = e
            /\ CreatedEdges' = CreatedEdges
            /\ edgeObjs'[e] = [edgeObjs[e] EXCEPT !.weight = w]
            /\ \A f \in CreatedEdges \ {e} : edgeObjs'[f] = edgeObjs[f]
            /\ vertexObjs' = vertexObjs
            /\ vertices' = vertices
            /\ \A g \in Graphs : Stored(g)' = Stored(g)]_vars

\* The weight of a stored Edge has just been changed.
C9_Witness ==
    /\ last.op = "Edge.__call__"
    /\ last.status = "ok"
    /\ \E g \in Graphs : \E x \in edges[g] :
        /\ x.obj = last.ret
        /\ x.hash # EdgeHash(edgeObjs[last.ret])

\* ------------------------------------------------------------------ C10
\* C10: a.edge(None, w), a.ledge(None, w) and a.redge(None, w) fail with the
\* error of a missing endpoint (the ValidationError of the Edge's fields) and
\* e.edge(None, w) fails too: no Edge is returned or built, and no edge set,
\* vertex set or Vertex changes.
C10_AbsentEndpointFails ==
    [][/\ \A op \in Ops, a \in CreatedVertices, w \in Weights :
            (last'.op = MethodName(op) /\ VertexCall(op, a, None, w)) =>
                /\ last'.status = "ValidationError"
                /\ last'.ret = None
                /\ edgeObjs' = edgeObjs
                /\ edges' = edges
                /\ vertices' = vertices
                /\ vertexObjs' = vertexObjs
       /\ \A e \in CreatedEdges, w \in Weights :
            (last'.op = "Edge.edge" /\ Edge_edge(e, NoneArg, w)) =>
                /\ last'.status = "AttributeError"
                /\ last'.ret = None
                /\ edgeObjs' = edgeObjs
                /\ edges' = edges
                /\ vertices' = vertices
                /\ vertexObjs' = vertexObjs]_vars

\* a.ledge(None) has just failed in a graph that has vertices and an Edge.
C10_Witness ==
    /\ last.op = "Vertex.ledge"
    /\ last.status = "ValidationError"
    /\ last.ret = None
    /\ \E g \in Graphs : edges[g] # {} /\ vertices[g] # {}

\* ------------------------------------------------------------------ C12
\* The Edges some graph's edge set holds.
StoredAnywhere == UNION {Stored(g) : g \in Graphs}

\* C12: a relationship call that warns of a duplicate replaces no stored Edge
\* and returns the Edge it has just built, which is in no edge set and whose id
\* no stored Edge has; a later weight update on an Edge that is in no edge set
\* leaves the weight of every stored Edge as it was.
C12_DuplicateReturnsFreshEdge ==
    [][/\ \A op \in Ops, a \in CreatedVertices, b \in CreatedVertices, w \in Weights :
            (last'.warn /\ last'.op = MethodName(op) /\ VertexCall(op, a, b, w)) =>
                /\ edges' = edges
                /\ \A f \in StoredAnywhere : edgeObjs'[f] = edgeObjs[f]
                /\ last'.ret \notin CreatedEdges
                /\ last'.ret \in CreatedEdges'
                /\ last'.ret \notin StoredAnywhere'
                /\ \A f \in StoredAnywhere' : edgeObjs'[f].id # edgeObjs'[last'.ret].id
                /\ StructuralKey(edgeObjs'[last'.ret]) = <<a, b, DirectionOf(op), w>>
       /\ \A e \in CreatedEdges \ StoredAnywhere, w \in Weights :
            (last'.op = "Edge.__call__" /\ Edge_call(e, w)) =>
                /\ edges' = edges
                /\ \A f \in StoredAnywhere : edgeObjs'[f].weight = edgeObjs[f].weight]_vars

\* The Edge a duplicate call returned has been given another weight: it is in
\* no edge set, and the stored Edge of the same endpoints and direction still
\* has the weight it was filed with.
C12_Witness ==
    /\ last.op = "Edge.__call__"
    /\ last.ret \notin StoredAnywhere
    /\ \E g \in Graphs : \E x \in edges[g] :
        /\ edgeObjs[x.obj].vertex1 = edgeObjs[last.ret].vertex1
        /\ edgeObjs[x.obj].vertex2 = edgeObjs[last.ret].vertex2
        /\ edgeObjs[x.obj].direction = edgeObjs[last.ret].direction
        /\ edgeObjs[x.obj].weight # edgeObjs[last.ret].weight
        /\ x.hash = EdgeHash(edgeObjs[x.obj])

\* ------------------------------------------------------------------ C13
\* C13: no step changes the graph, the id or the value of a Vertex that exists;
\* a.op(b, w) with b owned by another graph than a leaves every Vertex, every
\* vertex set and the edge set of b's graph as they were.
C13_VerticesNeverChange ==
    [][/\ \A v \in CreatedVertices :
            /\ v \in CreatedVertices'
            /\ vertexObjs'[v].graph = vertexObjs[v].graph
            /\ vertexObjs'[v].id = vertexObjs[v].id
            /\ vertexObjs'[v].value = vertexObjs[v].value
       /\ \A op \in Ops, a \in CreatedVertices, b \in CreatedVertices, w \in Weights :
            (/\ last'.op = MethodName(op)
             /\ GraphOf(a) # GraphOf(b)
             /\ VertexCall(op, a, b, w))
            => (/\ vertexObjs' = vertexObjs
                /\ vertices' = vertices
                /\ edges'[GraphOf(b)] = edges[GraphOf(b)])]_vars

\* A cross-graph call has stored its Edge in the caller's graph; the target is
\* still a Vertex of the other graph, which has it in its vertex set.
C13_Witness ==
    /\ last.op \in {"Vertex.edge", "Vertex.ledge", "Vertex.redge"}
    /\ last.status = "ok"
    /\ \E g \in Graphs, h \in Graphs :
        /\ g # h
        /\ last.ret \in Stored(g)
        /\ GraphOf(edgeObjs[last.ret].vertex1) = g
        /\ GraphOf(edgeObjs[last.ret].vertex2) = h
        /\ edgeObjs[last.ret].vertex2 \in vertices[h]
        /\ edgeObjs[last.ret].vertex2 \notin vertices[g]

\* ------------------------------------------------------------------ C15
\* C15: an Edge in a graph's edge set stays in it through every later step,
\* and the membership test edge in g.edges, which looks the Edge up by the hash
\* of its structural key as it is now, finds every Edge the set holds.
C15_StoredEdgeStaysFound ==
    /\ [][\A g \in Graphs : Stored(g) \subseteq Stored(g)']_vars
    /\ [](\A g \in Graphs : \A x \in edges[g] : Contains(edges[g], edgeObjs[x.obj]))

\* ------------------------------------------------------------------ C16
\* C16: when a relationship call has raised while its Edge was being
\* constructed (the endpoint argument was not a Vertex), the Edge gate is
\* closed again, and every direct Edge construction is refused with GraphError.
C16_GateClosedAfterRaise ==
    /\ []((last.op \in {"Vertex.edge", "Vertex.ledge", "Vertex.redge"}
            /\ last.status = "ValidationError") => Vertex_gate_keeper = None)
    /\ [][last'.op = "Edge" => (last'.status = "GraphError" /\ edgeObjs' = edgeObjs)]_vars

\* ------------------------------------------------------------------ C14
\* C14: for a and b of one graph g and any weight w, weights of different types
\* with the same text among them: when no Edge in g.edges has vertex1 = a,
\* vertex2 = b, the method's direction and a weight equal to w, a.op(b, w) does
\* not warn and adds the Edge it returns, so g.edges holds one Edge more.
C14_NewKeyIsInserted ==
    [][\A op \in Ops, a \in CreatedVertices, b \in CreatedVertices, w \in TextWeights :
        (/\ last'.op = MethodName(op)
         /\ GraphOf(a) = GraphOf(b)
         /\ ~ \E x \in edges[GraphOf(a)] :
                StructuralKey(edgeObjs[x.obj]) = <<a, b, DirectionOf(op), w>>
         /\ VertexCall(op, a, b, w))
        => (/\ last'.status = "ok"
            /\ ~ last'.warn
            /\ last'.ret \in Stored(GraphOf(a))'
            /\ Cardinality(edges'[GraphOf(a)]) = Cardinality(edges[GraphOf(a)]) + 1)]_vars

\* ------------------------------------------------------------------ C17
\* C17: for distinct a and b of one graph g and one weight, a.op(b) warns only
\* when g.edges holds an Edge with vertex1 = a, vertex2 = b and the method's
\* direction; otherwise (whatever Edges from b to a, or from a to b in another
\* direction, are stored) it does not warn and adds its Edge to g.edges.
C17_OrderAndDirectionCount ==
    [][\A op \in Ops, a \in CreatedVertices, b \in CreatedVertices :
        (/\ last'.op = MethodName(op)
         /\ a # b
         /\ GraphOf(a) = GraphOf(b)
         /\ VertexCall(op, a, b, PyNone))
        => IF \E x \in edges[GraphOf(a)] :
                /\ edgeObjs[x.obj].vertex1 = a
                /\ edgeObjs[x.obj].vertex2 = b
                /\ edgeObjs[x.obj].direction = DirectionOf(op)
           THEN last'.warn /\ edges' = edges
           ELSE /\ ~ last'.warn
                /\ last'.ret \in Stored(GraphOf(a))'
                /\ Cardinality(edges'[GraphOf(a)]) = Cardinality(edges[GraphOf(a)]) + 1]_vars

\* a.edge(b), b.edge(a), a.ledge(b) and a.redge(b) have all been made and a
\* graph's edge set holds the four Edges.
C17_Witness ==
    \E g \in Graphs : \E a \in vertices[g], b \in vertices[g] :
        /\ a # b
        /\ Cardinality(edges[g]) = 4
        /\ {StructuralKey(edgeObjs[x.obj]) : x \in edges[g]} =
                {<<a, b, "NONE", PyNone>>, <<b, a, "NONE", PyNone>>,
                 <<a, b, "LEFT", PyNone>>, <<a, b, "RIGHT", PyNone>>}

\* ------------------------------------------------------------------ C11
\* C11: with two threads the gate of a type is one shared cell and nothing
\* keeps a thread out while another is between opening and closing it:
\* (1) a thread may begin a factory call while another thread is inside its own;
\* (2) a thread that has opened the gate keeps it open unless another thread's
\* closing statement clears it; (3) the constructor a factory calls goes by the
\* gate as it is at that moment: cleared, it raises GraphError and builds
\* nothing, although the factory opened it; (4) a constructor called directly
\* builds its object exactly when the gate is open, which it is only while some
\* other thread is inside a factory.
C11_GateIsSharedByThreads ==
    /\ [](\A t \in Threads, u \in Threads :
            (t # u /\ threads[t].pc = "idle") =>
                /\ (InGate(u, "create_vertex") /\ RoomForVertex)
                        => \A g \in Graphs : ENABLED create_vertex_49(t, g)
                /\ (InGate(u, "edge") /\ RoomForEdge)
                        => \A a \in Returned : ENABLED CreateEdge_74(t, a, a))
    /\ [][\A t \in Threads :
            /\ (threads[t].pc = "idle" /\ threads'[t].pc = "50") => Graph_gate_keeper' # None
            /\ (threads[t].pc = "idle" /\ threads'[t].pc = "75") => Vertex_gate_keeper' # None
            /\ (threads[t].pc = "50" /\ threads'[t].pc = "50"
                    /\ Graph_gate_keeper # None /\ Graph_gate_keeper' = None)
                => \E u \in Threads \ {t} : threads[u].pc = "51" /\ threads'[u].pc = "52"
            /\ (threads[t].pc = "75" /\ threads'[t].pc = "75"
                    /\ Vertex_gate_keeper # None /\ Vertex_gate_keeper' = None)
                => \E u \in Threads \ {t} : threads[u].pc = "76" /\ threads'[u].pc = "65"
            /\ (threads[t].pc = "50" /\ threads'[t].pc # "50") =>
                    IF Graph_gate_keeper = None
                    THEN /\ threads'[t] = Idle([op |-> "create_vertex", status |-> "GraphError"])
                         /\ vertexObjs' = vertexObjs
                    ELSE /\ threads'[t].pc = "51"
                         /\ CreatedVertices' = CreatedVertices \cup {threads'[t].obj}
            /\ (threads[t].pc = "75" /\ threads'[t].pc # "75") =>
                    IF Vertex_gate_keeper = None
                    THEN /\ threads'[t] = Idle([op |-> "edge", status |-> "GraphError"])
                         /\ edgeObjs' = edgeObjs
                    ELSE /\ threads'[t].pc = "76"
                         /\ Len(edgeObjs') = Len(edgeObjs) + 1
            /\ \A g \in Graphs, id \in UUIDs :
                    ThreadVertex(t, g, id) =>
                        /\ threads'[t].out.status = "ok" <=> Graph_gate_keeper # None
                        /\ threads'[t].out.status = "ok"
                                => (/\ id \in CreatedVertices' \ CreatedVertices
                                    /\ \E u \in Threads \ {t} : InGate(u, "create_vertex"))
            /\ \A a \in Returned, b \in Returned :
                    ThreadEdge(t, a, b) =>
                        /\ threads'[t].out.status = "ok" <=> Vertex_gate_keeper # None
                        /\ threads'[t].out.status = "ok"
                                => (/\ Len(edgeObjs') = Len(edgeObjs) + 1
                                    /\ \E u \in Threads \ {t} : InGate(u, "edge"))]_vars

\* Both cases in one run: the last factory call of one thread was refused with
\* GraphError, the other thread cleared the gate under it; that thread is now
\* inside a relationship call, and the other thread's direct Edge construction
\* has gone through.
C11_Witness ==
    \E t \in Threads, u \in Threads :
        /\ t # u
        /\ threads[t].out = [op |-> "create_vertex", status |-> "GraphError"]
        /\ InGate(t, "edge")
        /\ threads[u].out = [op |-> "Edge", status |-> "ok"]
        /\ threads[u].pc = "idle"
        /\ Len(edgeObjs) = 1

====
